---- MODULE Spec2Model ----
(***************************************************************************)
(* Wire-format codecs of psila-data:                                       *)
(*   network/commands/link_status.rs  LinkStatusEntry, LinkStatus          *)
(*   device_profile/link_quality.rs   Neighbor,                            *)
(*                                    ManagementLinkQualityIndicatorResponse*)
(*                                                                         *)
(* A buffer (&[u8], &mut [u8]) is a sequence of octets; Rust index i is    *)
(* element i + 1 of the sequence.  Every codec function is an operator     *)
(* returning a record: kind is "Ok", "Err" (the function returned Err) or  *)
(* "Panic" (an assert!, unimplemented! or slice bound failed); err is the  *)
(* error; value / used are the Ok payload; data is the buffer as the call  *)
(* left it (encoders), reads is the set of Rust indices of the buffer the  *)
(* call read (decoders).                                                   *)
(*                                                                         *)
(* State: pc is the sequence of calls made so far and ret the sequence of  *)
(* their returns; self is the value the encoder is called on; data is the  *)
(* caller's buffer; fresh is the second buffer of a decode-then-encode.    *)
(***************************************************************************)
EXTENDS Integers, Naturals, Sequences, FiniteSets, TLC

VARIABLES pc, self, data, ret, fresh

vars == <<pc, self, data, ret, fresh>>

(***************************************************************************)
(* u8 arithmetic.                                                          *)
(***************************************************************************)
Byte == 0..255

RECURSIVE BitAnd(_, _)
BitAnd(a, b) ==
    IF a = 0 \/ b = 0 THEN 0
    ELSE (a % 2) * (b % 2) + 2 * BitAnd(a \div 2, b \div 2)

RECURSIVE BitOr(_, _)
BitOr(a, b) ==
    IF a = 0 THEN b
    ELSE IF b = 0 THEN a
    ELSE (IF a % 2 = 1 \/ b % 2 = 1 THEN 1 ELSE 0) + 2 * BitOr(a \div 2, b \div 2)

\* u8 << n : bits shifted past bit 7 are dropped.
Shl(x, n) == (x * 2^n) % 256

\* u8 >> n
Shr(x, n) == x \div 2^n

Bit(x, n) == (x \div 2^n) % 2

\* data[a..b] of a buffer (Rust half-open range, 0-based)
Slice(d, a, b) == SubSeq(d, a + 1, b)

\* the buffer d with the octets of s written at Rust indices off .. off+len(s)
WriteAt(d, off, s) ==
    [i \in 1..Len(d) |-> IF i > off /\ i <= off + Len(s) THEN s[i - off] ELSE d[i]]

\* the Rust indices a .. b-1
Range(a, b) == {i \in 0..b : a <= i /\ i < b}

WrongNumberOfBytes == <<"WrongNumberOfBytes">>

OutOfRange(v) == <<"OutOfRange", v>>

Last(s) == s[Len(s)]

NoValue == [none |-> TRUE]

(***************************************************************************)
(* NetworkAddress (crate::common::address): a 16-bit short address,        *)
(* two octets on the wire, low octet first.                                *)
(***************************************************************************)
NetworkAddressPack(addr, d) ==
    IF Len(d) # 2
    THEN [kind |-> "Err", err |-> WrongNumberOfBytes, data |-> d]
    ELSE [kind |-> "Ok", err |-> <<>>, data |-> <<addr % 256, addr \div 256>>]

NetworkAddressUnpack(d) ==
    IF Len(d) # 2
    THEN [kind |-> "Err", err |-> WrongNumberOfBytes, value |-> 0]
    ELSE [kind |-> "Ok", err |-> <<>>, value |-> d[1] + 256 * d[2]]

(***************************************************************************)
(* LinkStatusEntry                                                         *)
(***************************************************************************)
INCOMING_COST_MASK == 7

OUTGOING_COST_MASK == 112

LINK_STATUS_ENTRY_SIZE == 3

LinkStatusEntry(a, i, o) == [address |-> a, incoming_cost |-> i, outgoing_cost |-> o]

\* pack with the outgoing cost shifted by 3 instead of 4
LinkStatusEntryPackShift3(e, d) ==
    IF Len(d) # LINK_STATUS_ENTRY_SIZE
    THEN [kind |-> "Err", err |-> WrongNumberOfBytes, data |-> d]
    ELSE IF ~(e.incoming_cost < 16) \/ ~(e.outgoing_cost < 16)
    THEN [kind |-> "Panic", err |-> <<"assert">>, data |-> d]
    ELSE [kind |-> "Ok", err |-> <<>>,
          data |-> <<e.address % 256, e.address \div 256,
                     BitOr(e.incoming_cost, Shl(e.outgoing_cost, 3))>>]

\* fn pack(&self, data: &mut [u8]) -> Result<(), Error>
LinkStatusEntryPack(e, d) ==
    IF Len(d) # LINK_STATUS_ENTRY_SIZE
    THEN [kind |-> "Err", err |-> WrongNumberOfBytes, data |-> d]
    ELSE IF ~(e.incoming_cost < 16)
    THEN [kind |-> "Panic", err |-> <<"assert">>, data |-> d]
    ELSE IF ~(e.outgoing_cost < 16)
    THEN [kind |-> "Panic", err |-> <<"assert">>, data |-> d]
    ELSE LET a == NetworkAddressPack(e.address, Slice(d, 0, 2))
         IN  IF a.kind # "Ok"
             THEN [kind |-> "Err", err |-> a.err, data |-> d]
             ELSE [kind |-> "Ok", err |-> <<>>,
                   data |-> WriteAt(WriteAt(d, 0, a.data), 2,
                              <<BitOr(e.incoming_cost, Shl(e.outgoing_cost, 4))>>)]

\* unpack with the outgoing cost taken from bits 4-7
LinkStatusEntryUnpackWideMask(d) ==
    IF Len(d) # LINK_STATUS_ENTRY_SIZE
    THEN [kind |-> "Err", err |-> WrongNumberOfBytes, value |-> NoValue, reads |-> {}]
    ELSE [kind |-> "Ok", err |-> <<>>,
          value |-> LinkStatusEntry(d[1] + 256 * d[2],
                                    BitAnd(d[3], INCOMING_COST_MASK),
                                    Shr(BitAnd(d[3], 240), 4)),
          reads |-> {0, 1, 2}]

\* fn unpack(data: &[u8]) -> Result<Self, Error>
LinkStatusEntryUnpack(d) ==
    IF Len(d) # LINK_STATUS_ENTRY_SIZE
    THEN [kind |-> "Err", err |-> WrongNumberOfBytes, value |-> NoValue, reads |-> {}]
    ELSE LET a == NetworkAddressUnpack(Slice(d, 0, 2))
         IN  IF a.kind # "Ok"
             THEN [kind |-> "Err", err |-> a.err, value |-> NoValue, reads |-> {0, 1}]
             ELSE [kind |-> "Ok", err |-> <<>>,
                   value |-> LinkStatusEntry(a.value,
                                BitAnd(d[3], INCOMING_COST_MASK),
                                Shr(BitAnd(d[3], OUTGOING_COST_MASK), 4)),
                   reads |-> {0, 1, 2}]

(***************************************************************************)
(* LinkStatus                                                              *)
(***************************************************************************)
NUMBER_OF_ENTRIES_MASK == 31

FIRST_FRAME == 32

LAST_FRAME == 64

LinkStatus(f, l, es) == [first_frame |-> f, last_frame |-> l, entries |-> es]

\* for entry in self.entries.iter() { entry.pack(&mut data[offset..offset + 3])?; offset += 3; }
\* from entry number i (1-based) on; st is [kind, err, data, used] so far
RECURSIVE PackEntries(_, _, _)
PackEntries(es, i, st) ==
    IF i > Len(es) THEN st
    ELSE IF st.used + LINK_STATUS_ENTRY_SIZE > Len(st.data)
    THEN [st EXCEPT !.kind = "Panic", !.err = <<"slice">>]
    ELSE LET r == LinkStatusEntryPack(es[i],
                      Slice(st.data, st.used, st.used + LINK_STATUS_ENTRY_SIZE))
         IN  IF r.kind # "Ok"
             THEN [st EXCEPT !.kind = r.kind, !.err = r.err]
             ELSE PackEntries(es, i + 1,
                      [st EXCEPT !.data = WriteAt(st.data, st.used, r.data),
                                 !.used = st.used + LINK_STATUS_ENTRY_SIZE])

\* the header octet: num_entries | FIRST_FRAME if first_frame | LAST_FRAME if last_frame
HeaderSwappedFlags(ls) ==
    BitOr(BitOr(Len(ls.entries) % 256, IF ls.first_frame THEN LAST_FRAME ELSE 0),
          IF ls.last_frame THEN FIRST_FRAME ELSE 0)

Header(ls) ==
    BitOr(BitOr(Len(ls.entries) % 256, IF ls.first_frame THEN FIRST_FRAME ELSE 0),
          IF ls.last_frame THEN LAST_FRAME ELSE 0)

\* pack that writes the header before it checks the length of the buffer
LinkStatusPackEarlyWrite(ls, d) ==
    IF ~(Len(ls.entries) < 32)
    THEN [kind |-> "Panic", err |-> <<"assert">>, data |-> d, used |-> 0]
    ELSE IF Len(d) = 0
    THEN [kind |-> "Err", err |-> WrongNumberOfBytes, data |-> d, used |-> 0]
    ELSE IF Len(d) < 1 + Len(ls.entries) * LINK_STATUS_ENTRY_SIZE
    THEN [kind |-> "Err", err |-> WrongNumberOfBytes,
          data |-> WriteAt(d, 0, <<Header(ls)>>), used |-> 0]
    ELSE PackEntries(ls.entries, 1,
             [kind |-> "Ok", err |-> <<>>,
              data |-> WriteAt(d, 0, <<Header(ls)>>), used |-> 1])

\* fn pack(&self, data: &mut [u8]) -> Result<usize, Error>
LinkStatusPack(ls, d) ==
    IF ~(Len(ls.entries) < 32)
    THEN [kind |-> "Panic", err |-> <<"assert">>, data |-> d, used |-> 0]
    ELSE IF Len(d) < 1 + Len(ls.entries) * LINK_STATUS_ENTRY_SIZE
    THEN [kind |-> "Err", err |-> WrongNumberOfBytes, data |-> d, used |-> 0]
    ELSE PackEntries(ls.entries, 1,
             [kind |-> "Ok", err |-> <<>>,
              data |-> WriteAt(d, 0, <<Header(ls)>>), used |-> 1])

\* for _ in 0..num_entries { let entry = LinkStatusEntry::unpack(&data[offset..offset + 3])?; ... }
\* st is [kind, err, entries, used, reads] so far, n the entries still to decode
RECURSIVE UnpackEntries(_, _, _)
UnpackEntries(d, n, st) ==
    IF n = 0 THEN st
    ELSE IF st.used + LINK_STATUS_ENTRY_SIZE > Len(d)
    THEN [st EXCEPT !.kind = "Panic", !.err = <<"slice">>]
    ELSE LET r == LinkStatusEntryUnpack(
                      Slice(d, st.used, st.used + LINK_STATUS_ENTRY_SIZE))
             rd == st.reads \cup {st.used + k : k \in r.reads}
         IN  IF r.kind # "Ok"
             THEN [st EXCEPT !.kind = r.kind, !.err = r.err, !.reads = rd]
             ELSE UnpackEntries(d, n - 1,
                      [st EXCEPT !.entries = Append(st.entries, r.value),
                                 !.used = st.used + LINK_STATUS_ENTRY_SIZE,
                                 !.reads = rd])

LinkStatusResult(st) ==
    [kind |-> st.kind, err |-> st.err,
     value |-> IF st.kind = "Ok" THEN LinkStatus(st.first, st.last, st.entries)
               ELSE NoValue,
     used |-> IF st.kind = "Ok" THEN st.used ELSE 0,
     reads |-> st.reads]

\* unpack with the two fragment flags taken from each other's bit
LinkStatusUnpackSwappedFlags(d) ==
    IF Len(d) = 0
    THEN [kind |-> "Err", err |-> WrongNumberOfBytes, value |-> NoValue,
          used |-> 0, reads |-> {}]
    ELSE LET num_entries == BitAnd(d[1], NUMBER_OF_ENTRIES_MASK)
         IN  IF Len(d) < 1 + num_entries * LINK_STATUS_ENTRY_SIZE
             THEN [kind |-> "Err", err |-> WrongNumberOfBytes, value |-> NoValue,
                   used |-> 0, reads |-> {0}]
             ELSE LinkStatusResult(UnpackEntries(d, num_entries,
                      [kind |-> "Ok", err |-> <<>>,
                       first |-> BitAnd(d[1], LAST_FRAME) = LAST_FRAME,
                       last |-> BitAnd(d[1], FIRST_FRAME) = FIRST_FRAME,
                       entries |-> <<>>, used |-> 1, reads |-> {0}]))

\* fn unpack(data: &[u8]) -> Result<(Self, usize), Error>
LinkStatusUnpack(d) ==
    IF Len(d) = 0
    THEN [kind |-> "Err", err |-> WrongNumberOfBytes, value |-> NoValue,
          used |-> 0, reads |-> {}]
    ELSE LET num_entries == BitAnd(d[1], NUMBER_OF_ENTRIES_MASK)
         IN  IF Len(d) < 1 + num_entries * LINK_STATUS_ENTRY_SIZE
             THEN [kind |-> "Err", err |-> WrongNumberOfBytes, value |-> NoValue,
                   used |-> 0, reads |-> {0}]
             ELSE LinkStatusResult(UnpackEntries(d, num_entries,
                      [kind |-> "Ok", err |-> <<>>,
                       first |-> BitAnd(d[1], FIRST_FRAME) = FIRST_FRAME,
                       last |-> BitAnd(d[1], LAST_FRAME) = LAST_FRAME,
                       entries |-> <<>>, used |-> 1, reads |-> {0}]))

(***************************************************************************)
(* ExtendedAddress (crate::common::address): a 64-bit address, eight       *)
(* octets on the wire.  The value is kept as its octets, low octet first   *)
(* (a 64-bit number is outside the model checker's integers).              *)
(***************************************************************************)
ExtendedAddressUnpack(d) ==
    IF Len(d) # 8
    THEN [kind |-> "Err", err |-> WrongNumberOfBytes, value |-> <<>>]
    ELSE [kind |-> "Ok", err |-> <<>>, value |-> d]

(***************************************************************************)
(* extended_enum!: each enumeration is its list of (variant, value) pairs; *)
(* TryFrom<u8> yields the variant whose value equals the octet, and fails  *)
(* with the octet when there is none.                                      *)
(***************************************************************************)
TryFrom(enum, v) ==
    IF \E p \in enum : p[2] = v
    THEN [kind |-> "Ok", err |-> <<>>, value |-> (CHOOSE p \in enum : p[2] = v)[1]]
    ELSE [kind |-> "Err", err |-> OutOfRange(v), value |-> ""]

DeviceType ==
    {<<"Coordinator", 0>>, <<"Router", 1>>, <<"EndDevice", 2>>, <<"Unknown", 3>>}

RxOnWhenIdle == {<<"Off", 0>>, <<"On", 1>>, <<"Unknown", 2>>}

Relationship ==
    {<<"Parent", 0>>, <<"Child", 1>>, <<"Sibling", 2>>, <<"NoneOfAbove", 3>>,
     <<"PreviousChild", 4>>}

PermitJoining == {<<"Yes", 0>>, <<"No", 1>>, <<"Unknown", 2>>}

\* crate::device_profile::Status: of its mapping only Success => 0x00 is modelled
Status == {<<"Success", 0>>}

(***************************************************************************)
(* Neighbor                                                                *)
(***************************************************************************)
NEIGHBOR_SIZE == 22

NeighborError(e, rd) ==
    [kind |-> "Err", err |-> e, value |-> NoValue, used |-> 0, reads |-> rd]

\* unpack with the relationship taken from bits 4-5 only
NeighborUnpackNarrowRelationship(d) ==
    IF Len(d) < NEIGHBOR_SIZE THEN NeighborError(WrongNumberOfBytes, {})
    ELSE LET device_type == TryFrom(DeviceType, BitAnd(d[19], 3))
             rx_idle == TryFrom(RxOnWhenIdle, Shr(BitAnd(d[19], 12), 2))
             relationship == TryFrom(Relationship, Shr(BitAnd(d[19], 48), 4))
             permit_joining == TryFrom(PermitJoining, Shr(BitAnd(d[20], 192), 6))
         IN  IF rx_idle.kind # "Ok" THEN NeighborError(rx_idle.err, Range(0, 19))
             ELSE IF relationship.kind # "Ok"
             THEN NeighborError(relationship.err, Range(0, 19))
             ELSE IF permit_joining.kind # "Ok"
             THEN NeighborError(permit_joining.err, Range(0, 20))
             ELSE [kind |-> "Ok", err |-> <<>>,
                   value |-> [pan_identifier |-> Slice(d, 0, 8),
                              extended_address |-> Slice(d, 8, 16),
                              network_address |-> d[17] + 256 * d[18],
                              device_type |-> device_type.value,
                              rx_idle |-> rx_idle.value,
                              relationship |-> relationship.value,
                              permit_joining |-> permit_joining.value,
                              depth |-> d[21],
                              link_quality |-> d[22]],
                   used |-> NEIGHBOR_SIZE, reads |-> Range(0, 22)]

\* fn unpack(data: &[u8]) -> Result<(Self, usize), Error>
NeighborUnpack(d) ==
    IF Len(d) < NEIGHBOR_SIZE THEN NeighborError(WrongNumberOfBytes, {})
    ELSE LET pan_identifier == ExtendedAddressUnpack(Slice(d, 0, 8))
             extended_address == ExtendedAddressUnpack(Slice(d, 8, 16))
             network_address == NetworkAddressUnpack(Slice(d, 16, 18))
             device_type == TryFrom(DeviceType, BitAnd(d[19], 3))
             rx_idle == TryFrom(RxOnWhenIdle, Shr(BitAnd(d[19], 12), 2))
             relationship == TryFrom(Relationship, Shr(BitAnd(d[19], 112), 4))
             permit_joining == TryFrom(PermitJoining, Shr(BitAnd(d[20], 192), 6))
         IN  IF pan_identifier.kind # "Ok"
             THEN NeighborError(pan_identifier.err, Range(0, 8))
             ELSE IF extended_address.kind # "Ok"
             THEN NeighborError(extended_address.err, Range(0, 16))
             ELSE IF network_address.kind # "Ok"
             THEN NeighborError(network_address.err, Range(0, 18))
             ELSE IF device_type.kind # "Ok"
             THEN NeighborError(device_type.err, Range(0, 19))
             ELSE IF rx_idle.kind # "Ok"
             THEN NeighborError(rx_idle.err, Range(0, 19))
             ELSE IF relationship.kind # "Ok"
             THEN NeighborError(relationship.err, Range(0, 19))
             ELSE IF permit_joining.kind # "Ok"
             THEN NeighborError(permit_joining.err, Range(0, 20))
             ELSE [kind |-> "Ok", err |-> <<>>,
                   value |-> [pan_identifier |-> pan_identifier.value,
                              extended_address |-> extended_address.value,
                              network_address |-> network_address.value,
                              device_type |-> device_type.value,
                              rx_idle |-> rx_idle.value,
                              relationship |-> relationship.value,
                              permit_joining |-> permit_joining.value,
                              depth |-> d[21],
                              link_quality |-> d[22]],
                   used |-> NEIGHBOR_SIZE, reads |-> Range(0, 22)]

(***************************************************************************)
(* ManagementLinkQualityIndicatorResponse                                  *)
(***************************************************************************)
LQI_HEADER_SIZE == 4

LqiError(e, rd) ==
    [kind |-> "Err", err |-> e, value |-> NoValue, used |-> 0, reads |-> rd]

LqiResult(st) ==
    [kind |-> st.kind, err |-> st.err,
     value |-> IF st.kind = "Ok"
               THEN [status |-> st.status, neighbors_total |-> st.neighbors_total,
                     index |-> st.index, neighbors |-> st.neighbors]
               ELSE NoValue,
     used |-> IF st.kind = "Ok" THEN st.used ELSE 0,
     reads |-> st.reads]

\* the loop with each neighbor put in front of those decoded before it
RECURSIVE UnpackNeighborsReversed(_, _, _)
UnpackNeighborsReversed(d, n, st) ==
    IF n = 0 THEN st
    ELSE IF st.used > Len(d)
    THEN [st EXCEPT !.kind = "Panic", !.err = <<"slice">>]
    ELSE LET r == NeighborUnpack(Slice(d, st.used, Len(d)))
             rd == st.reads \cup {st.used + k : k \in r.reads}
         IN  IF r.kind # "Ok"
             THEN [st EXCEPT !.kind = r.kind, !.err = r.err, !.reads = rd]
             ELSE UnpackNeighborsReversed(d, n - 1,
                      [st EXCEPT !.neighbors = <<r.value>> \o st.neighbors,
                                 !.used = st.used + r.used,
                                 !.reads = rd])

\* for _ in 0..num_entries { let (neighbor, used) = Neighbor::unpack(&data[offset..])?; ... }
\* st is [kind, err, ..., neighbors, used, reads] so far, n the neighbors still to decode
RECURSIVE UnpackNeighbors(_, _, _)
UnpackNeighbors(d, n, st) ==
    IF n = 0 THEN st
    ELSE IF st.used > Len(d)
    THEN [st EXCEPT !.kind = "Panic", !.err = <<"slice">>]
    ELSE LET r == NeighborUnpack(Slice(d, st.used, Len(d)))
             rd == st.reads \cup {st.used + k : k \in r.reads}
         IN  IF r.kind # "Ok"
             THEN [st EXCEPT !.kind = r.kind, !.err = r.err, !.reads = rd]
             ELSE UnpackNeighbors(d, n - 1,
                      [st EXCEPT !.neighbors = Append(st.neighbors, r.value),
                                 !.used = st.used + r.used,
                                 !.reads = rd])

\* unpack that decodes the status before it checks the four header octets
LqiUnpackStatusFirst(d) ==
    IF Len(d) = 0 THEN LqiError(WrongNumberOfBytes, {})
    ELSE LET status == TryFrom(Status, d[1])
         IN  IF status.kind # "Ok" THEN LqiError(status.err, {0})
             ELSE IF Len(d) < LQI_HEADER_SIZE THEN LqiError(WrongNumberOfBytes, {0})
             ELSE IF Len(d) < LQI_HEADER_SIZE + d[4] * NEIGHBOR_SIZE
             THEN LqiError(WrongNumberOfBytes, Range(0, 4))
             ELSE LqiResult(UnpackNeighbors(d, d[4],
                      [kind |-> "Ok", err |-> <<>>, status |-> status.value,
                       neighbors_total |-> d[2], index |-> d[3],
                       neighbors |-> <<>>, used |-> LQI_HEADER_SIZE,
                       reads |-> Range(0, 4)]))

\* unpack without the check of the buffer against the entry count
LqiUnpackNoCountCheck(d) ==
    IF Len(d) < LQI_HEADER_SIZE THEN LqiError(WrongNumberOfBytes, {})
    ELSE LET status == TryFrom(Status, d[1])
         IN  IF status.kind # "Ok" THEN LqiError(status.err, {0})
             ELSE LqiResult(UnpackNeighbors(d, d[4],
                      [kind |-> "Ok", err |-> <<>>, status |-> status.value,
                       neighbors_total |-> d[2], index |-> d[3],
                       neighbors |-> <<>>, used |-> LQI_HEADER_SIZE,
                       reads |-> Range(0, 4)]))

\* fn unpack(data: &[u8]) -> Result<(Self, usize), Error>
LqiUnpack(d) ==
    IF Len(d) < LQI_HEADER_SIZE THEN LqiError(WrongNumberOfBytes, {})
    ELSE LET status == TryFrom(Status, d[1])
         IN  IF status.kind # "Ok" THEN LqiError(status.err, {0})
             ELSE LET neighbors_total == d[2]
                      index == d[3]
                      num_entries == d[4]
                  IN  IF Len(d) < LQI_HEADER_SIZE + num_entries * NEIGHBOR_SIZE
                      THEN LqiError(WrongNumberOfBytes, Range(0, 4))
                      ELSE LqiResult(UnpackNeighbors(d, num_entries,
                               [kind |-> "Ok", err |-> <<>>, status |-> status.value,
                                neighbors_total |-> neighbors_total, index |-> index,
                                neighbors |-> <<>>, used |-> LQI_HEADER_SIZE,
                                reads |-> Range(0, 4)]))

(***************************************************************************)
(* Inputs: the values handed to the encoders and the buffers handed to     *)
(* the decoders.                                                           *)
(***************************************************************************)
\* largest cost value an entry is built with (16 trips the assert!)
MaxCost == 16

\* most entries a frame is built with, or a received frame has room for
MaxEntries == 2

\* most neighbor records a received response holds
MaxNeighbors == 2

\* octets a buffer may hold past the structure
MaxTrailing == 2

\* short addresses: zero, one octet each side, both octets, all ones
Addresses == {0, 255, 256, 4660, 65535}

\* prior content of a buffer handed to an encoder
Fills == {0, 255}

Filled(n, f) == [i \in 1..n |-> f]

\* octet i of a received body: every position differs from its neighbours
Pattern(seed, i) == (seed + 37 * i) % 256

Seeds == {0, 7, 119, 255}

SeqsUpTo(S, n) == UNION {[1..k -> S] : k \in 0..n}

RECURSIVE Concat(_)
Concat(ss) == IF ss = <<>> THEN <<>> ELSE ss[1] \o Concat(Tail(ss))

EntryValues ==
    {LinkStatusEntry(a, i, o) : a \in Addresses, i \in 0..MaxCost, o \in 0..MaxCost}

\* wire images of an entry: the cost octet ranges over every u8
EntryBuffers ==
    {<<lo, hi, c>> : lo \in {0, 52}, hi \in {0, 18}, c \in Byte}
        \cup {<<1, 2>>, <<1, 2, 3, 4>>}

\* entries a frame is built from: costs within 0..7, within 8..15, and beyond the assert!
EntrySamples ==
    {LinkStatusEntry(4660, 7, 1), LinkStatusEntry(255, 0, 5),
     LinkStatusEntry(65535, 9, 15), LinkStatusEntry(256, 16, 0)}

\* a frame too long for the 5-bit count
LongFrame == LinkStatus(TRUE, FALSE, [i \in 1..32 |-> LinkStatusEntry(i, 1, 2)])

LinkStatusValues ==
    {LinkStatus(f, l, es) : f \in BOOLEAN, l \in BOOLEAN,
                            es \in SeqsUpTo(EntrySamples, MaxEntries)}
        \cup {LongFrame}

\* received frames: a header with every flag combination and a count up to one
\* past MaxEntries, or 31, followed by 0 .. 3 * MaxEntries + MaxTrailing octets
LinkStatusBuffers ==
    {<<>>} \cup
    {<<c + 32 * f + 64 * l + 128 * r>> \o [i \in 1..n |-> Pattern(s, i)] :
        c \in 0..(MaxEntries + 1) \cup {31}, f \in 0..1, l \in 0..1, r \in 0..1,
        n \in 0..(LINK_STATUS_ENTRY_SIZE * MaxEntries + MaxTrailing), s \in Seeds}

\* octet 19 of a neighbor record: each PermitJoining value, reserved bits clear and set
PermitOctets == {0, 63, 64, 128, 191, 192, 255}

NeighborImage(s, b18, b19, n) ==
    [i \in 1..n |-> IF i = 19 THEN b18 ELSE IF i = 20 THEN b19 ELSE Pattern(s, i)]

\* received neighbor records: octet 18 ranges over every u8; and every shorter buffer
NeighborBuffers ==
    {NeighborImage(7, b18, b19, n) :
        b18 \in Byte, b19 \in PermitOctets,
        n \in {NEIGHBOR_SIZE, NEIGHBOR_SIZE + MaxTrailing}}
    \cup {NeighborImage(s, b18, 0, n) :
            s \in {0, 7}, b18 \in {0, 12}, n \in 0..(NEIGHBOR_SIZE - 1)}

\* the two records of the sample response of tests::unpack_link_quality_inicator_response,
\* a record with the last variant of every enumeration and reserved bits set,
\* and a record whose RxOnWhenIdle value is not in the mapping
NeighborSamples ==
    {<<56, 46, 3, 255, 255, 46, 33, 0, 56, 46, 3, 255, 255, 46, 33, 0,
       0, 0, 4, 2, 0, 147>>,
     <<56, 46, 3, 255, 255, 46, 33, 0, 133, 174, 33, 254, 255, 111, 13, 0,
       123, 192, 18, 2, 2, 129>>,
     NeighborImage(119, 203, 191, NEIGHBOR_SIZE),
     NeighborImage(255, 12, 0, NEIGHBOR_SIZE)}

\* received responses: status 0x00 or 0xff, a count octet up to one past
\* MaxNeighbors, or 255, then up to MaxNeighbors records and trailing octets,
\* whole or with the last octet missing
LqiBuffers ==
    {LET full == <<st, ti[1], ti[2], c>> \o Concat(recs)
                     \o [i \in 1..t |-> Pattern(0, i)]
     IN  SubSeq(full, 1, Len(full) - cut) :
        st \in {0, 255}, ti \in {<<2, 0>>, <<200, 9>>},
        c \in 0..(MaxNeighbors + 1) \cup {255},
        recs \in SeqsUpTo(NeighborSamples, MaxNeighbors),
        t \in 0..MaxTrailing, cut \in 0..1}

ReceivedBuffers == EntryBuffers \cup LinkStatusBuffers \cup NeighborBuffers \cup LqiBuffers

IsEntry(v) == DOMAIN v = DOMAIN LinkStatusEntry(0, 0, 0)

IsFrame(v) == DOMAIN v = DOMAIN LinkStatus(FALSE, FALSE, <<>>)

(***************************************************************************)
(* The calls.  A caller either holds a value and a buffer to encode it     *)
(* into, or a received buffer to decode.                                   *)
(***************************************************************************)
Init ==
    /\ pc = <<>>
    /\ ret = <<>>
    /\ fresh = <<>>
    /\ \/ /\ self \in EntryValues
          /\ \E n \in 2..4, f \in Fills : data = Filled(n, f)
       \/ /\ self \in LinkStatusValues
          /\ \E n \in 0..(1 + LINK_STATUS_ENTRY_SIZE * MaxEntries + MaxTrailing),
                f \in Fills : data = Filled(n, f)
       \/ /\ self = NoValue
          /\ data \in ReceivedBuffers

\* entry.pack(&mut data)
EntryPack ==
    /\ pc = <<>>
    /\ IsEntry(self)
    /\ LET r == LinkStatusEntryPack(self, data)
       IN  /\ data' = r.data
           /\ ret' = <<[kind |-> r.kind, err |-> r.err]>>
    /\ pc' = <<"LinkStatusEntry::pack">>
    /\ UNCHANGED <<self, fresh>>

\* LinkStatusEntry::unpack(&data), of a received buffer or of the one just packed
EntryUnpack ==
    /\ \/ pc = <<>> /\ self = NoValue
       \/ pc = <<"LinkStatusEntry::pack">> /\ Last(ret).kind = "Ok"
    /\ ret' = Append(ret, LinkStatusEntryUnpack(data))
    /\ pc' = Append(pc, "LinkStatusEntry::unpack")
    /\ UNCHANGED <<self, data, fresh>>

\* the decoded entry packed at once into a fresh 3-octet buffer
EntryRepack ==
    /\ pc = <<"LinkStatusEntry::unpack">>
    /\ Last(ret).kind = "Ok"
    /\ \E f \in Fills :
         LET r == LinkStatusEntryPack(Last(ret).value, Filled(LINK_STATUS_ENTRY_SIZE, f))
         IN  /\ fresh' = r.data
             /\ ret' = Append(ret, [kind |-> r.kind, err |-> r.err])
    /\ pc' = Append(pc, "LinkStatusEntry::pack")
    /\ UNCHANGED <<self, data>>

\* frame.pack(&mut data)
FramePack ==
    /\ pc = <<>>
    /\ IsFrame(self)
    /\ LET r == LinkStatusPack(self, data)
       IN  /\ data' = r.data
           /\ ret' = <<[kind |-> r.kind, err |-> r.err,
                        used |-> IF r.kind = "Ok" THEN r.used ELSE 0]>>
    /\ pc' = <<"LinkStatus::pack">>
    /\ UNCHANGED <<self, fresh>>

\* LinkStatus::unpack(&data), of a received buffer or of the one just packed
FrameUnpack ==
    /\ \/ pc = <<>> /\ self = NoValue
       \/ pc = <<"LinkStatus::pack">> /\ Last(ret).kind = "Ok"
    /\ ret' = Append(ret, LinkStatusUnpack(data))
    /\ pc' = Append(pc, "LinkStatus::unpack")
    /\ UNCHANGED <<self, data, fresh>>

\* Neighbor::unpack(&data)
NeighborDecode ==
    /\ pc = <<>>
    /\ self = NoValue
    /\ ret' = <<NeighborUnpack(data)>>
    /\ pc' = <<"Neighbor::unpack">>
    /\ UNCHANGED <<self, data, fresh>>

\* ManagementLinkQualityIndicatorResponse::unpack(&data)
LqiDecode ==
    /\ pc = <<>>
    /\ self = NoValue
    /\ ret' = <<LqiUnpack(data)>>
    /\ pc' = <<"ManagementLinkQualityIndicatorResponse::unpack">>
    /\ UNCHANGED <<self, data, fresh>>

Next ==
    \/ EntryPack
    \/ EntryUnpack
    \/ EntryRepack
    \/ FramePack
    \/ FrameUnpack
    \/ NeighborDecode
    \/ LqiDecode

Spec == Init /\ [][Next]_vars

(***************************************************************************)
(* Properties.                                                             *)
(***************************************************************************)
\* the call made last, and what it returned
Called(name) == Len(pc) > 0 /\ Last(pc) = name

\* the entry that octets off .. off+2 of d spell, by the layout of the wire table
ExpectedEntry(d, off) ==
    [address |-> d[off + 1] + 256 * d[off + 2],
     incoming_cost |-> d[off + 3] % 8,
     outgoing_cost |-> (d[off + 3] \div 16) % 8]

\* the three octets an entry with costs below 16 is written as
ExpectedImage(e) ==
    <<e.address % 256, e.address \div 256, e.incoming_cost + 16 * e.outgoing_cost>>

\* the sub-fields of octets 18 and 19 of the record at offset off of d
RxField(d, off) == (d[off + 19] \div 4) % 4

RelationshipField(d, off) == (d[off + 19] \div 16) % 8

PermitField(d, off) == d[off + 20] \div 64

\* the neighbor that octets off .. off+21 of d spell, by the layout of the wire table
ExpectedNeighbor(d, off) ==
    [pan_identifier |-> [i \in 1..8 |-> d[off + i]],
     extended_address |-> [i \in 1..8 |-> d[off + 8 + i]],
     network_address |-> d[off + 17] + 256 * d[off + 18],
     device_type |-> <<"Coordinator", "Router", "EndDevice", "Unknown">>[(d[off + 19] % 4) + 1],
     rx_idle |-> <<"Off", "On", "Unknown">>[RxField(d, off) + 1],
     relationship |-> <<"Parent", "Child", "Sibling", "NoneOfAbove", "PreviousChild">>
                          [RelationshipField(d, off) + 1],
     permit_joining |-> <<"Yes", "No", "Unknown">>[PermitField(d, off) + 1],
     depth |-> d[off + 21],
     link_quality |-> d[off + 22]]

LengthError(r) ==
    /\ r.kind = "Err"
    /\ r.err = WrongNumberOfBytes
    /\ r.value = NoValue
    /\ r.used = 0

CostsBelow(es, n) ==
    \A i \in 1..Len(es) : es[i].incoming_cost < n /\ es[i].outgoing_cost < n

\* the buffer of tests::unpack_link_quality_inicator_response
SampleResponse ==
    <<0, 2, 0, 2,
      56, 46, 3, 255, 255, 46, 33, 0, 56, 46, 3, 255, 255, 46, 33, 0,
      0, 0, 4, 2, 0, 147,
      56, 46, 3, 255, 255, 46, 33, 0, 133, 174, 33, 254, 255, 111, 13, 0,
      123, 192, 18, 2, 2, 129>>

\* C1: an entry with both costs in 0..7, whatever its address, packs into a
\* 3-octet buffer with Ok, and unpacking those 3 octets returns Ok with an
\* entry equal to the original.
C1_EntryRoundTrip ==
    (/\ Len(pc) > 0
     /\ pc[1] = "LinkStatusEntry::pack"
     /\ IsEntry(self)
     /\ Len(data) = LINK_STATUS_ENTRY_SIZE
     /\ self.incoming_cost <= 7
     /\ self.outgoing_cost <= 7)
    => /\ ret[1].kind = "Ok"
       /\ Len(pc) = 2 => (Last(ret).kind = "Ok" /\ Last(ret).value = self)

C1_Witness ==
    /\ pc = <<"LinkStatusEntry::pack", "LinkStatusEntry::unpack">>
    /\ self = LinkStatusEntry(4660, 7, 7)
    /\ data = <<52, 18, 119>>
    /\ Last(ret).value = self

\* C2 as stated: a response of at least 4 octets whose count octet implies
\* 4 + 22 * count octets, more than the buffer holds, fails with
\* WrongNumberOfBytes whatever the other header octets are, and no octet at
\* an index past the buffer is read.
C2_CountBeyondBufferIsLengthError ==
    (/\ pc = <<"ManagementLinkQualityIndicatorResponse::unpack">>
     /\ Len(data) >= 4
     /\ 4 + 22 * data[4] > Len(data))
    => /\ ret[1].kind = "Err"
       /\ ret[1].err = WrongNumberOfBytes
       /\ ret[1].reads \subseteq Range(0, Len(data))

\* C2 amended: such a response fails and no octet at an index past the buffer
\* is read; the error is WrongNumberOfBytes when octet 0 is a value of the
\* Status enumeration, and the out-of-range error carrying octet 0 when it is
\* not, the status being decoded before the count is looked at.
C2_CountBeyondBufferFails ==
    (/\ pc = <<"ManagementLinkQualityIndicatorResponse::unpack">>
     /\ Len(data) >= 4
     /\ 4 + 22 * data[4] > Len(data))
    => /\ ret[1].kind = "Err"
       /\ ret[1].value = NoValue
       /\ ret[1].reads \subseteq Range(0, Len(data))
       /\ ret[1].err = IF \E p \in Status : p[2] = data[1]
                       THEN WrongNumberOfBytes
                       ELSE OutOfRange(data[1])

C2_Witness ==
    /\ pc = <<"ManagementLinkQualityIndicatorResponse::unpack">>
    /\ Len(data) = 4 + 2 * 22
    /\ data[1] = 0
    /\ data[4] = 3
    /\ ret[1].err = WrongNumberOfBytes

\* C3: a buffer shorter than the minimum of the structure (22 octets for
\* Neighbor, 4 for the response, 1 for LinkStatus) fails with
\* WrongNumberOfBytes, with no value and no consumed count, and none of its
\* octets is read.
C3_ShortBufferIsLengthError ==
    /\ (Called("Neighbor::unpack") /\ Len(data) < 22)
         => (LengthError(Last(ret)) /\ Last(ret).reads = {})
    /\ (Called("ManagementLinkQualityIndicatorResponse::unpack") /\ Len(data) < 4)
         => (LengthError(Last(ret)) /\ Last(ret).reads = {})
    /\ (Called("LinkStatus::unpack") /\ Len(data) = 0)
         => (LengthError(Last(ret)) /\ Last(ret).reads = {})

C3_Witness ==
    /\ pc = <<"ManagementLinkQualityIndicatorResponse::unpack">>
    /\ Len(data) = 3
    /\ data[1] # 0
    /\ LengthError(ret[1])

\* C4: Neighbor::unpack of at least 22 octets fails with the out-of-range
\* error carrying the sub-field's value when RxOnWhenIdle (octet 18 bits 2-3)
\* is 3, Relationship (octet 18 bits 4-6) is 5, 6 or 7, or PermitJoining
\* (octet 19 bits 6-7) is 3, the first of them in that order; for every other
\* combination it succeeds, each sub-field giving exactly its declared variant.
C4_NeighborEnumerations ==
    (pc = <<"Neighbor::unpack">> /\ Len(data) >= 22)
    => IF RxField(data, 0) = 3
       THEN ret[1].kind = "Err" /\ ret[1].err = OutOfRange(3)
       ELSE IF RelationshipField(data, 0) >= 5
       THEN ret[1].kind = "Err" /\ ret[1].err = OutOfRange(RelationshipField(data, 0))
       ELSE IF PermitField(data, 0) = 3
       THEN ret[1].kind = "Err" /\ ret[1].err = OutOfRange(3)
       ELSE /\ ret[1].kind = "Ok"
            /\ ret[1].value = ExpectedNeighbor(data, 0)
            /\ ret[1].used = 22

C4_Witness ==
    /\ pc = <<"Neighbor::unpack">>
    /\ Len(data) = 22
    /\ RxField(data, 0) = 2
    /\ RelationshipField(data, 0) = 6
    /\ ret[1].err = OutOfRange(6)

\* C5: a successful unpack of a response with count = octet 3 consumes
\* 4 + 22 * count, has neighbors_total = octet 1 and index = octet 2, and
\* count neighbors, the i-th decoded from octets 4+22i .. 4+22(i+1) in wire
\* order; nothing at or past 4 + 22 * count is read; the 48-octet sample
\* decodes to status Success with 48 consumed.
C5_ResponseDecode ==
    /\ (pc = <<"ManagementLinkQualityIndicatorResponse::unpack">> /\ ret[1].kind = "Ok")
         => LET count == data[4]
                rsp == ret[1].value
            IN  /\ ret[1].used = 4 + 22 * count
                /\ rsp.neighbors_total = data[2]
                /\ rsp.index = data[3]
                /\ Len(rsp.neighbors) = count
                /\ \A i \in 1..count :
                     rsp.neighbors[i] = ExpectedNeighbor(data, 4 + 22 * (i - 1))
                /\ ret[1].reads \subseteq Range(0, 4 + 22 * count)
    /\ (pc = <<"ManagementLinkQualityIndicatorResponse::unpack">> /\ data = SampleResponse)
         => /\ ret[1].kind = "Ok"
            /\ ret[1].value.status = "Success"
            /\ ret[1].used = 48

C5_Witness ==
    /\ pc = <<"ManagementLinkQualityIndicatorResponse::unpack">>
    /\ data = SampleResponse
    /\ ret[1].kind = "Ok"
    /\ Len(ret[1].value.neighbors) = 2
    /\ ret[1].value.neighbors[2].relationship = "Child"

\* C6: LinkStatus::unpack of a non-empty buffer with header b and
\* count = b & 0x1f fails with WrongNumberOfBytes when the buffer holds fewer
\* than 1 + 3 * count octets, and otherwise succeeds with first_frame = bit 5,
\* last_frame = bit 6, count entries in wire order and 1 + 3 * count consumed;
\* bit 7 of b and the octets past the frame have no part in the result.
C6_FrameDecode ==
    (Called("LinkStatus::unpack") /\ Len(data) >= 1)
    => LET b == data[1]
           count == b % 32
           r == Last(ret)
       IN  IF Len(data) < 1 + 3 * count
           THEN LengthError(r)
           ELSE /\ r.kind = "Ok"
                /\ r.value.first_frame = (Bit(b, 5) = 1)
                /\ r.value.last_frame = (Bit(b, 6) = 1)
                /\ Len(r.value.entries) = count
                /\ \A i \in 1..count :
                     r.value.entries[i] = ExpectedEntry(data, 1 + 3 * (i - 1))
                /\ r.used = 1 + 3 * count
                /\ r.reads \subseteq Range(0, 1 + 3 * count)

C6_Witness ==
    /\ pc = <<"LinkStatus::unpack">>
    /\ Len(data) > 7
    /\ data[1] = 98
    /\ ret[1].kind = "Ok"
    /\ ret[1].value.first_frame
    /\ ret[1].value.last_frame
    /\ Len(ret[1].value.entries) = 2
    /\ ret[1].used = 7

\* C7 as stated: every 3-octet buffer unpacks with Ok, and packing the result
\* into a fresh 3-octet buffer yields the octets of the buffer.
C7_DecodeEncodeIsIdentity ==
    /\ (Called("LinkStatusEntry::unpack") /\ pc[1] = "LinkStatusEntry::unpack"
          /\ Len(data) = 3) => ret[1].kind = "Ok"
    /\ pc = <<"LinkStatusEntry::unpack", "LinkStatusEntry::pack">>
         => (ret[2].kind = "Ok" /\ fresh = data)

\* C7 amended: every 3-octet buffer unpacks with Ok, and packing the result
\* into a fresh 3-octet buffer yields the octets of the buffer with bits 3
\* and 7 of octet 2 cleared: the buffer itself when those two bits are clear.
C7_DecodeEncodeClearsReserved ==
    /\ (Called("LinkStatusEntry::unpack") /\ pc[1] = "LinkStatusEntry::unpack"
          /\ Len(data) = 3) => ret[1].kind = "Ok"
    /\ pc = <<"LinkStatusEntry::unpack", "LinkStatusEntry::pack">>
         => /\ ret[2].kind = "Ok"
            /\ fresh = <<data[1], data[2],
                         data[3] - 8 * Bit(data[3], 3) - 128 * Bit(data[3], 7)>>
            /\ (Bit(data[3], 3) = 0 /\ Bit(data[3], 7) = 0) => fresh = data

C7_Witness ==
    /\ pc = <<"LinkStatusEntry::unpack", "LinkStatusEntry::pack">>
    /\ data = <<52, 18, 119>>
    /\ fresh = data

\* C8: packing an entry with a cost above 7 does not complete with Ok, so no
\* cost octet written by a successful pack has bit 3 or bit 7 set.
C8_CostsAboveSevenRejected ==
    (pc = <<"LinkStatusEntry::pack">> /\ Len(data) = 3)
    => /\ (self.incoming_cost > 7 \/ self.outgoing_cost > 7) => ret[1].kind # "Ok"
       /\ ret[1].kind = "Ok" => (Bit(data[3], 3) = 0 /\ Bit(data[3], 7) = 0)

\* C9: LinkStatus::pack of a frame of n < 32 entries with costs below 16:
\* into a buffer shorter than 1 + 3n it returns WrongNumberOfBytes and leaves
\* every octet as it was; into a longer one it returns 1 + 3n, writes
\* octet 0 = n | 0x20 if first_frame | 0x40 if last_frame with bit 7 clear
\* and entry i at octets 1+3i .. 4+3i, and leaves every octet from 1 + 3n on
\* as it was.
C9_FramePackEffect ==
    [][(/\ pc = <<>>
        /\ pc' = <<"LinkStatus::pack">>
        /\ Len(self.entries) < 32
        /\ CostsBelow(self.entries, 16))
       => LET n == Len(self.entries)
              r == ret'[1]
          IN  /\ Len(data') = Len(data)
              /\ IF Len(data) < 1 + 3 * n
                 THEN r.kind = "Err" /\ r.err = WrongNumberOfBytes /\ data' = data
                 ELSE /\ r.kind = "Ok"
                      /\ r.used = 1 + 3 * n
                      /\ data'[1] = n + (IF self.first_frame THEN 32 ELSE 0)
                                      + (IF self.last_frame THEN 64 ELSE 0)
                      /\ Bit(data'[1], 7) = 0
                      /\ \A i \in 1..n :
                           SubSeq(data', 3 * i - 1, 3 * i + 1)
                               = ExpectedImage(self.entries[i])
                      /\ \A k \in (1 + 3 * n + 1)..Len(data) : data'[k] = data[k]
      ]_vars

C9_Witness ==
    /\ pc = <<"LinkStatus::pack">>
    /\ ret[1].kind = "Ok"
    /\ self.first_frame
    /\ ~self.last_frame
    /\ self.entries = <<LinkStatusEntry(65535, 9, 15), LinkStatusEntry(4660, 7, 1)>>
    /\ data = <<34, 255, 255, 249, 52, 18, 23, 255, 255>>

\* C10: a frame of at most 31 entries with all costs in 0..7 packs into any
\* buffer of at least 1 + 3n octets returning w = 1 + 3n, and unpacking that
\* buffer returns an equal frame with w consumed, whatever the buffer held
\* before and holds past the frame.
C10_FrameRoundTrip ==
    (/\ Len(pc) > 0
     /\ pc[1] = "LinkStatus::pack"
     /\ Len(self.entries) <= 31
     /\ CostsBelow(self.entries, 8)
     /\ Len(data) >= 1 + 3 * Len(self.entries))
    => /\ ret[1].kind = "Ok"
       /\ ret[1].used = 1 + 3 * Len(self.entries)
       /\ Len(pc) = 2 => /\ ret[2].kind = "Ok"
                         /\ ret[2].value = self
                         /\ ret[2].used = ret[1].used

C10_Witness ==
    /\ pc = <<"LinkStatus::pack", "LinkStatus::unpack">>
    /\ self = LinkStatus(TRUE, FALSE,
                         <<LinkStatusEntry(4660, 7, 1), LinkStatusEntry(255, 0, 5)>>)
    /\ Len(data) = 9
    /\ data[9] = 255
    /\ ret[2].value = self
    /\ ret[2].used = 7

====
